---- MODULE Spec2Model ----
(***************************************************************************)
(* Model of platform/validation/validate.py: the AppConfigValidator        *)
(* pipeline (load YAML -> jsonschema -> business rules) and the CLI main.  *)
(*                                                                         *)
(* Python values are modelled as follows.                                  *)
(*   str        a TLA+ string; text that the code splits is kept as a      *)
(*              sequence of chunks in which the quote character is a       *)
(*              chunk of its own                                           *)
(*   dict       a function whose DOMAIN is the set of keys present         *)
(*   Path       a record [abs, parts] as pathlib keeps it                  *)
(*   float/int  a record [isInt, tenths] (the value is tenths / 10)        *)
(*   exception  an outcome record [kind |-> "raise", exc |-> name]         *)
(***************************************************************************)
EXTENDS Integers, Sequences, FiniteSets, TLC

(* ------------------------------ bounds --------------------------------- *)
\* longest list of apps in apps/_registry.yml
MaxApps == 2
\* longest ValidationError.path
MaxPathLen == 2
\* validate() calls made on one validator object
MaxCalls == 2

(* ------------------------------- state --------------------------------- *)
VARIABLES
    argv,        \* sys.argv
    schemaFile,  \* schemas/app-config.schema.json: "ok" or "missing"
    files,       \* config path -> what loading and jsonschema find there
    disk,        \* the Dockerfile paths that exist
    registry,    \* apps/_registry.yml
    hashSeed,    \* the process's str hash seed
    pc,          \* where main (or the embedding caller) is
    validator,   \* the AppConfigValidator object
    outcome,     \* what the last validate call returned or raised
    stdout,      \* what has been printed
    exitCode,    \* the process exit status, -1 while running
    reports,     \* the calls made on the validator: <<[path, outcome]>>
    probe,       \* a ValidationError handed to the explanation resolver
    diag         \* the diagnostic the resolver gave for it

envVars == <<argv, schemaFile, files, disk, registry, hashSeed>>
cliVars == <<pc, validator, outcome, stdout, exitCode>>
libVars == <<reports>>
fixVars == <<probe, diag>>
vars == <<envVars, cliVars, libVars, fixVars>>

(* --------------------------- string helpers ---------------------------- *)
\* sep.join(parts)
RECURSIVE JoinStr(_, _)
JoinStr(parts, sep) ==
    IF parts = <<>> THEN ""
    ELSE IF Len(parts) = 1 THEN parts[1]
    ELSE parts[1] \o sep \o JoinStr(Tail(parts), sep)

\* "".join(chunks): the text a chunk sequence stands for
Text(chunks) == JoinStr(chunks, "")

\* text.split(sep) on a chunked text, sep being a chunk of its own
RECURSIVE SplitAt(_, _, _)
SplitAt(chunks, sep, cur) ==
    IF chunks = <<>> THEN <<cur>>
    ELSE IF chunks[1] = sep THEN <<cur>> \o SplitAt(Tail(chunks), sep, "")
    ELSE SplitAt(Tail(chunks), sep, cur \o chunks[1])

Split(chunks, sep) == SplitAt(chunks, sep, "")

\* text.replace(old, new) on a chunked text, old being a chunk of its own
RECURSIVE Replace(_, _, _)
Replace(chunks, old, new) ==
    IF chunks = <<>> THEN ""
    ELSE (IF chunks[1] = old THEN new ELSE chunks[1]) \o Replace(Tail(chunks), old, new)

\* sep-separated chunks of a list of strings: <<a, sep, b, sep, c>>
RECURSIVE Interleave(_, _)
Interleave(parts, sep) ==
    IF Len(parts) <= 1 THEN parts
    ELSE <<parts[1], sep>> \o Interleave(Tail(parts), sep)

DigitStr(d) == <<"0", "1", "2", "3", "4", "5", "6", "7", "8", "9">>[d + 1]

\* str(n) for a natural number
RECURSIVE NatStr(_)
NatStr(n) == IF n < 10 THEN DigitStr(n) ELSE NatStr(n \div 10) \o DigitStr(n % 10)

(* ------------------------------- dicts --------------------------------- *)
EmptyDict == [k \in {} |-> k]

\* the one-key dict {k: v} when present, {} otherwise
Opt(present, k, v) == IF present THEN (k :> v) ELSE EmptyDict

\* d.get(k, default)
Get(d, k, default) == IF k \in DOMAIN d THEN d[k] ELSE default

(* ------------------------------- paths --------------------------------- *)
\* Path(segments): pathlib drops "." segments; a leading "/" makes it absolute
PathOf(segs) ==
    LET isAbs == segs # <<>> /\ segs[1] = "/"
        rest  == IF isAbs THEN Tail(segs) ELSE segs
    IN [abs |-> isAbs, parts |-> SelectSeq(rest, LAMBDA s : s # ".")]

\* a / b: an absolute right operand replaces the left one
PathJoin(a, b) ==
    IF b.abs THEN b ELSE [abs |-> a.abs, parts |-> a.parts \o b.parts]

\* p.parent
PathParent(p) ==
    IF p.parts = <<>> THEN p
    ELSE [abs |-> p.abs, parts |-> SubSeq(p.parts, 1, Len(p.parts) - 1)]

\* str(p)
PathStr(p) ==
    IF p.abs THEN "/" \o JoinStr(p.parts, "/")
    ELSE IF p.parts = <<>> THEN "."
    ELSE JoinStr(p.parts, "/")

(* ------------------------------ numbers -------------------------------- *)
\* a YAML number: an int (cpu: 3) or a float (cpu: 2.5), value tenths / 10
PyInt(n)        == [isInt |-> TRUE,  tenths |-> 10 * n]
PyFloat(tenths) == [isInt |-> FALSE, tenths |-> tenths]

\* f"{x}": str of an int or repr of a float
NumStr(x) ==
    IF x.isInt THEN NatStr(x.tenths \div 10)
    ELSE NatStr(x.tenths \div 10) \o "." \o DigitStr(x.tenths % 10)

\* f"{x * 20:.2f}": tenths * 20 / 10 is a whole number of pounds
CostStr(x) == NatStr(x.tenths * 2) \o ".00"

(* ---------------------- the configuration document --------------------- *)
\* dicts over one optional key
OptSet(k, vals) == {EmptyDict} \cup {k :> v : v \in vals}

\* values of components.*.directory, as "/"-separated segments
BackendDirs  == {<<".", "api">>}
FrontendDirs == {<<"/", "srv", "web">>}
\* values of components.backend.cpu
Cpus == {PyFloat(20), PyFloat(25), PyInt(3)}
\* values of app.team
Teams == {"pilot", "alpha", "beta"}

BackendDicts ==
    {e @@ d @@ c : e \in OptSet("enabled", BOOLEAN),
                   d \in OptSet("directory", BackendDirs),
                   c \in OptSet("cpu", Cpus)}

FrontendDicts ==
    {e @@ d : e \in OptSet("enabled", {TRUE}), d \in OptSet("directory", FrontendDirs)}

AppDicts == OptSet("team", Teams)

\* parsed documents: yaml.safe_load(f) of src line 52
Docs ==
    {[app |-> a, components |-> [backend |-> b, frontend |-> f]] :
        a \in AppDicts, b \in BackendDicts, f \in FrontendDicts}
    \cup {EmptyDict}

\* documents on which every business rule has something to say
ProbeDocs ==
    {[app |-> ("team" :> t),
      components |-> [backend  |-> [enabled |-> TRUE, cpu |-> PyFloat(25)],
                      frontend |-> [enabled |-> TRUE]]] : t \in {"beta"}}

(* ------------------------- jsonschema errors --------------------------- *)
IdPattern == "^[a-z0-9-]{3,15}$"

\* elements of ValidationError.path: mapping keys and sequence indexes
PathElems == {[key |-> "app"], [key |-> "name"], [idx |-> 0]}

\* str(p) of a path element
ElemStr(p) == IF "key" \in DOMAIN p THEN p.key ELSE NatStr(p.idx)

RECURSIVE SeqsUpTo(_, _)
SeqsUpTo(S, n) ==
    IF n = 0 THEN {<<>>}
    ELSE LET shorter == SeqsUpTo(S, n - 1)
         IN shorter \cup {Append(q, x) : q \in {r \in shorter : Len(r) = n - 1}, x \in S}

ErrorPaths == SeqsUpTo(PathElems, MaxPathLen)

\* the keywords a violated subschema may carry next to the violated one
SchemaShapes ==
    {p @@ e @@ t @@ lo @@ hi @@ r @@ m :
        p  \in OptSet("pattern", {IdPattern, "^[A-Z]+$"}),
        e  \in OptSet("enum", {<<"dev", "staging", "prod">>}),
        t  \in OptSet("type", {"string"}),
        lo \in OptSet("minimum", {PyFloat(5)}),
        hi \in OptSet("maximum", {PyInt(4)}),
        r  \in OptSet("required", {<<"app", "components">>}),
        m  \in OptSet("minLength", {PyInt(3)})}

\* ValidationError.message as jsonschema words it, quote chunks apart
MessagesOf(keyword, subschema) ==
    IF keyword = "required"
    THEN {<<"'", f, "'", " is a required property">> :
              f \in {subschema.required[i] : i \in DOMAIN subschema.required}}
    ELSE IF keyword = "type"
    THEN {<<"42 is not of type ", "'", subschema.type, "'">>}
    ELSE IF keyword = "pattern"
    THEN {<<"'", "My-App", "'", " does not match ", "'", subschema.pattern, "'">>}
    ELSE IF keyword = "enum"
    THEN {<<"'", "qa", "'", " is not one of [...]">>}
    ELSE IF keyword = "minLength"
    THEN {<<"'", "ab", "'", " is too short">>}
    ELSE {<<"9 is out of range">>}

Validators == {"required", "enum", "type", "pattern", "minimum", "maximum", "minLength"}

\* the ValidationErrors jsonschema.validate can raise: the violated keyword
\* (error.validator) is always a key of the violated subschema (error.schema)
ErrorsOver(shapes, paths) ==
    UNION {{[validator |-> vs[1], schema |-> vs[2], path |-> p, message |-> m] :
                p \in paths, m \in MessagesOf(vs[1], vs[2])} :
           vs \in {x \in Validators \X shapes : x[1] \in DOMAIN x[2]}}

\* subschemas that carry the violated keyword alone
PlainShapes == {s \in SchemaShapes : Cardinality(DOMAIN s) = 1}

NoViolation == [validator |-> "none"]

(* ------------------------------ registry ------------------------------- *)
\* the value Python gives for a missing key
PyNone == "<None>"

RegistryTeams == {"alpha", "gamma"}

\* apps/_registry.yml: absent, not YAML, empty (safe_load gives None), or a
\* mapping whose optional apps list holds dicts with an optional team
\* the apps lists, one for each bag of entries: the code turns the list into
\* a set of teams, so the order of the entries is left out of the inputs
AppLists ==
    LET rank(e) == IF "team" \notin DOMAIN e THEN 0 ELSE IF e.team = "alpha" THEN 1 ELSE 2
    IN {q \in SeqsUpTo(OptSet("team", RegistryTeams), MaxApps) :
           \A i \in 1..(Len(q) - 1) : rank(q[i]) <= rank(q[i + 1])}

Registries ==
    {[kind |-> "absent"], [kind |-> "malformed"], [kind |-> "empty"]}
    \cup {[kind |-> "mapping", doc |-> d] : d \in OptSet("apps", AppLists)}

\* the seed of str hashing, fixed for the life of the process
HashSeeds == {0, 1}

\* list(S) for a set of str: the order depends on the hash seed only
SetOrder(S, seed) ==
    LET asc  == <<"alpha", "gamma">>
        desc == <<"gamma", "alpha">>
    IN SelectSeq(IF seed = 0 THEN asc ELSE desc, LAMBDA t : t \in S)

(* --------------------------- the file system --------------------------- *)
ConfigPath == PathOf(<<"apps", "demo", "app-config.yml">>)

\* the places a Dockerfile may be
DockerfilePaths ==
    {PathJoin(PathJoin(PathParent(ConfigPath), PathOf(d)), PathOf(<<"Dockerfile">>)) :
        d \in BackendDirs \cup FrontendDirs \cup {<<".", "backend">>, <<".", "frontend">>}}

\* what open(config_path) and yaml.safe_load find, with the verdict
\* jsonschema gives on the parsed document
Sources ==
    {[kind |-> "missing"], [kind |-> "unreadable"],
     [kind |-> "badyaml", details |-> "mapping values are not allowed here"]}
    \cup {[kind |-> "parsed", config |-> c, violation |-> NoViolation] : c \in Docs}

\* parsed documents that jsonschema rejects
ViolatingSources ==
    {[kind |-> "parsed", config |-> c, violation |-> e] :
        c \in ProbeDocs, e \in ErrorsOver(PlainShapes, ErrorPaths)}

(* ------------------------- explanation resolver ------------------------ *)
\* FieldChunks without the "root" fallback for an empty path
FieldChunksUnrooted(error) ==
    Interleave([i \in DOMAIN error.path |-> ElemStr(error.path[i])], ".")

\* the dotted field path of an error, "." chunks apart
FieldChunks(error) ==
    IF error.path # <<>>
    THEN Interleave([i \in DOMAIN error.path |-> ElemStr(error.path[i])], ".")
    ELSE <<"root">>

\* (the source's "almost equal" sign is written "~" here)
GetFieldExplanation(field_path) ==
    LET explanations ==
          [x \in {"app.name", "app.team", "app.region", "components.backend.cpu",
                  "components.backend.memory", "components.backend.port",
                  "components.database.enabled", "environment"} |->
             CASE x = "app.name" ->
                    "App name is used in all Azure resource names (e.g., rg-{name}-dev). "
                    \o "Must be DNS-safe and unique across the platform."
               [] x = "app.team" ->
                    "Team ownership is used for cost allocation and access control. "
                    \o "Helps us track who owns what and how much each team spends."
               [] x = "app.region" ->
                    "Azure region determines where your app runs. "
                    \o "Affects latency and compliance requirements."
               [] x = "components.backend.cpu" ->
                    "CPU allocation affects both performance and monthly costs. "
                    \o "1 core ~ £20/month. Start low and scale up if needed."
               [] x = "components.backend.memory" ->
                    "Memory allocation in GB. Affects cost (~£2.5/GB/month) and app performance. "
                    \o "Most apps work fine with 1-2GB."
               [] x = "components.backend.port" ->
                    "Port your backend listens on. Must match what your Dockerfile EXPOSEs. "
                    \o "Used for health checks and routing."
               [] x = "components.database.enabled" ->
                    "Deploying a database adds ~£25/month to costs but provides managed, backed-up storage."
               [] x = "environment" ->
                    "Environment (dev/staging/prod) affects resource naming and potentially sizing. "
                    \o "Helps organize deployments."]
    IN Get(explanations, field_path, "This field is required by the platform configuration")

PatternFix ==
    "Use only lowercase letters, numbers, and hyphens. "
    \o "Length must be 3-15 characters. Example: 'my-app' or 'api-service'"

GenericFix == "Check the schema documentation for correct format"

\* f"{error.schema.get(k, '')}" for a numeric bound
BoundStr(schema, k) == IF k \in DOMAIN schema THEN NumStr(schema[k]) ELSE ""

\* GetFixSuggestion with the "required" case tried before the pattern case
GetFixSuggestionRequiredFirst(error) ==
    IF error.validator = "required"
    THEN "Add the required field '" \o Split(error.message, "'")[2]
         \o "' to your configuration"
    ELSE IF "pattern" \in DOMAIN error.schema /\ error.schema["pattern"] = IdPattern
    THEN PatternFix
    ELSE IF error.validator = "enum"
    THEN "Value must be one of: " \o JoinStr(Get(error.schema, "enum", <<>>), ", ")
    ELSE IF error.validator = "type"
    THEN "This field must be a " \o Get(error.schema, "type", "None")
    ELSE IF "minimum" \in DOMAIN error.schema \/ "maximum" \in DOMAIN error.schema
    THEN "Value must be between " \o BoundStr(error.schema, "minimum")
         \o " and " \o BoundStr(error.schema, "maximum")
    ELSE GenericFix

GetFixSuggestion(error) ==
    IF "pattern" \in DOMAIN error.schema /\ error.schema["pattern"] = IdPattern
    THEN PatternFix
    ELSE IF error.validator = "required"
    THEN "Add the required field '" \o Split(error.message, "'")[2]
         \o "' to your configuration"
    ELSE IF error.validator = "enum"
    THEN "Value must be one of: " \o JoinStr(Get(error.schema, "enum", <<>>), ", ")
    ELSE IF error.validator = "type"
    THEN "This field must be a " \o Get(error.schema, "type", "None")
    ELSE IF "minimum" \in DOMAIN error.schema \/ "maximum" \in DOMAIN error.schema
    THEN "Value must be between " \o BoundStr(error.schema, "minimum")
         \o " and " \o BoundStr(error.schema, "maximum")
    ELSE GenericFix

GetDocsLink(field_chunks) ==
    "platform/docs/configuration-reference.md" \o "#" \o Replace(field_chunks, ".", "-")

ExplainValidationError(error, config_path) ==
    LET field_chunks == FieldChunks(error)
        field_path   == Text(field_chunks)
    IN [error            |-> Text(error.message),
        field            |-> field_path,
        why_this_matters |-> GetFieldExplanation(field_path),
        fix              |-> GetFixSuggestion(error),
        severity         |-> "error",
        docs_link        |-> GetDocsLink(field_chunks)]

(* ---------------------------- business rules --------------------------- *)
\* config.get('components', {}).get(name, {})
Component(config, name) == Get(Get(config, "components", EmptyDict), name, EmptyDict)

\* app_dir / directory / 'Dockerfile'
DockerfilePath(app_dir, directory) ==
    PathJoin(PathJoin(app_dir, PathOf(directory)), PathOf(<<"Dockerfile">>))

\* Check 1 looking in ./backend whatever components.backend.directory says
CheckBackendDockerfileDefaultDir(config, app_dir, files_on_disk) ==
    LET backend         == Component(config, "backend")
        dockerfile_path == DockerfilePath(app_dir, <<".", "backend">>)
    IN IF Get(backend, "enabled", FALSE) /\ dockerfile_path \notin files_on_disk
       THEN <<[error |-> "Backend enabled but Dockerfile not found at "
                         \o PathStr(dockerfile_path),
               why_this_matters |->
                   "We need a Dockerfile to build your backend container image. "
                   \o "Without it, deployment will fail.",
               fix |-> "Create " \o PathStr(dockerfile_path)
                       \o " or set components.backend.enabled to false",
               severity  |-> "error",
               docs_link |-> "platform/docs/dockerfile-guide.md"]>>
       ELSE <<>>

\* Check 1: if backend enabled, Dockerfile must exist
CheckBackendDockerfile(config, app_dir, files_on_disk) ==
    LET backend         == Component(config, "backend")
        backend_dir     == Get(backend, "directory", <<".", "backend">>)
        dockerfile_path == DockerfilePath(app_dir, backend_dir)
    IN IF Get(backend, "enabled", FALSE) /\ dockerfile_path \notin files_on_disk
       THEN <<[error |-> "Backend enabled but Dockerfile not found at "
                         \o PathStr(dockerfile_path),
               why_this_matters |->
                   "We need a Dockerfile to build your backend container image. "
                   \o "Without it, deployment will fail.",
               fix |-> "Create " \o PathStr(dockerfile_path)
                       \o " or set components.backend.enabled to false",
               severity  |-> "error",
               docs_link |-> "platform/docs/dockerfile-guide.md"]>>
       ELSE <<>>

\* Check 2: if frontend enabled, Dockerfile must exist
CheckFrontendDockerfile(config, app_dir, files_on_disk) ==
    LET frontend        == Component(config, "frontend")
        frontend_dir    == Get(frontend, "directory", <<".", "frontend">>)
        dockerfile_path == DockerfilePath(app_dir, frontend_dir)
    IN IF Get(frontend, "enabled", FALSE) /\ dockerfile_path \notin files_on_disk
       THEN <<[error |-> "Frontend enabled but Dockerfile not found at "
                         \o PathStr(dockerfile_path),
               why_this_matters |->
                   "We need a Dockerfile to build your frontend container image",
               fix |-> "Create " \o PathStr(dockerfile_path)
                       \o " or set components.frontend.enabled to false",
               severity |-> "error"]>>
       ELSE <<>>

\* Check 3 with the threshold itself counted as high
CheckHighCpuInclusive(config) ==
    LET backend_cpu == Get(Component(config, "backend"), "cpu", PyInt(0))
    IN IF backend_cpu.tenths >= 20
       THEN <<[error |-> "Backend CPU allocation is high: " \o NumStr(backend_cpu)
                         \o " cores",
               why_this_matters |->
                   "This will cost approximately £" \o CostStr(backend_cpu)
                   \o "/month just for CPU. "
                   \o "Consider starting with 1-2 cores and scaling up if needed.",
               fix |-> "Reduce components.backend.cpu to 1.0 or 2.0 unless you have "
                       \o "specific performance requirements",
               severity |-> "warning"]>>
       ELSE <<>>

\* Check 3: warn about high resource allocation
CheckHighCpu(config) ==
    LET backend_cpu == Get(Component(config, "backend"), "cpu", PyInt(0))
    IN IF backend_cpu.tenths > 20
       THEN <<[error |-> "Backend CPU allocation is high: " \o NumStr(backend_cpu)
                         \o " cores",
               why_this_matters |->
                   "This will cost approximately £" \o CostStr(backend_cpu)
                   \o "/month just for CPU. "
                   \o "Consider starting with 1-2 cores and scaling up if needed.",
               fix |-> "Reduce components.backend.cpu to 1.0 or 2.0 unless you have "
                       \o "specific performance requirements",
               severity |-> "warning"]>>
       ELSE <<>>

\* Check 4: ensure team is registered.  Nothing here catches what reading
\* the registry raises.
CheckTeamRegistered(config, reg, seed) ==
    LET team == Get(Get(config, "app", EmptyDict), "team", PyNone)
    IN IF team = PyNone \/ reg.kind = "absent"
       THEN [kind |-> "ok", errors |-> <<>>]
       ELSE IF reg.kind = "malformed"
       THEN [kind |-> "raise", exc |-> "yaml.YAMLError"]
       ELSE IF reg.kind = "empty"
       THEN [kind |-> "raise", exc |-> "AttributeError"]
       ELSE LET apps == Get(reg.doc, "apps", <<>>)
                registered_teams == {Get(apps[i], "team", PyNone) : i \in DOMAIN apps}
            IN IF team \notin registered_teams /\ team # "pilot"
               THEN IF PyNone \in registered_teams
                    THEN [kind |-> "raise", exc |-> "TypeError"]
                    ELSE [kind |-> "ok", errors |->
                           <<[error |-> "Team '" \o team \o "' not found in registry",
                              why_this_matters |->
                                  "Teams must be registered for cost allocation and access control. "
                                  \o "This prevents typos and ensures proper ownership.",
                              fix |-> "1. Add your team to apps/_registry.yml, OR\n"
                                      \o "2. Use an existing team name: "
                                      \o JoinStr(SetOrder(registered_teams, seed), ", "),
                              severity |-> "warning"]>>]
               ELSE [kind |-> "ok", errors |-> <<>>]

\* the rules with the CPU check run first
CustomValidationsCpuFirst(config, config_path, files_on_disk, reg, seed) ==
    LET app_dir == PathParent(config_path)
        first3  == CheckHighCpu(config)
                   \o CheckBackendDockerfile(config, app_dir, files_on_disk)
                   \o CheckFrontendDockerfile(config, app_dir, files_on_disk)
        check4  == CheckTeamRegistered(config, reg, seed)
    IN IF check4.kind = "raise" THEN check4
       ELSE [kind |-> "ok", errors |-> first3 \o check4.errors]

\* the rules with each one run only while the list is still empty
CustomValidationsStopAtFirst(config, config_path, files_on_disk, reg, seed) ==
    LET app_dir == PathParent(config_path)
        one     == CheckBackendDockerfile(config, app_dir, files_on_disk)
        two     == IF one # <<>> THEN one
                   ELSE CheckFrontendDockerfile(config, app_dir, files_on_disk)
        three   == IF two # <<>> THEN two ELSE CheckHighCpu(config)
        check4  == CheckTeamRegistered(config, reg, seed)
    IN IF three # <<>> THEN [kind |-> "ok", errors |-> three]
       ELSE check4

CustomValidations(config, config_path, files_on_disk, reg, seed) ==
    LET app_dir == PathParent(config_path)
        first3  == CheckBackendDockerfile(config, app_dir, files_on_disk)
                   \o CheckFrontendDockerfile(config, app_dir, files_on_disk)
                   \o CheckHighCpu(config)
        check4  == CheckTeamRegistered(config, reg, seed)
    IN IF check4.kind = "raise" THEN check4
       ELSE [kind |-> "ok", errors |-> first3 \o check4.errors]

(* ------------------------------ validate ------------------------------- *)
\* the missing-file diagnostic with the severity of an ordinary error
NotFoundDiagnosticAsError(config_path) ==
    [error |-> "File not found: " \o PathStr(config_path),
     why_this_matters |-> "We need an app-config.yml file to know how to deploy your app",
     fix |-> "Create " \o PathStr(config_path) \o " using the template from apps/_template/",
     severity  |-> "error",
     docs_link |-> "platform/docs/onboarding.md#step-2-create-configuration"]

NotFoundDiagnostic(config_path) ==
    [error |-> "File not found: " \o PathStr(config_path),
     why_this_matters |-> "We need an app-config.yml file to know how to deploy your app",
     fix |-> "Create " \o PathStr(config_path) \o " using the template from apps/_template/",
     severity  |-> "critical",
     docs_link |-> "platform/docs/onboarding.md#step-2-create-configuration"]

YamlDiagnostic(details) ==
    [error |-> "Failed to parse YAML",
     details |-> details,
     why_this_matters |-> "YAML syntax errors prevent us from reading your configuration",
     fix |-> "Check YAML syntax at https://www.yamllint.com/ or use a YAML linter",
     severity |-> "critical"]

Return(is_valid, errors) == [kind |-> "return", is_valid |-> is_valid, errors |-> errors]

\* steps 1 to 3 of validate, errors being the list the diagnostics go to
ValidateFrom(errors, config_path, src, files_on_disk, reg, seed) ==
    IF src.kind = "missing"
    THEN Return(FALSE, Append(errors, NotFoundDiagnostic(config_path)))
    ELSE IF src.kind = "unreadable"
    THEN [kind |-> "raise", exc |-> "PermissionError"]
    ELSE IF src.kind = "badyaml"
    THEN Return(FALSE, Append(errors, YamlDiagnostic(src.details)))
    ELSE IF src.violation # NoViolation
    THEN Return(FALSE, Append(errors, ExplainValidationError(src.violation, config_path)))
    ELSE LET custom == CustomValidations(src.config, config_path, files_on_disk, reg, seed)
         IN IF custom.kind = "raise" THEN custom
            ELSE LET all == errors \o custom.errors
                 IN Return(Len(all) = 0, all)

\* validate with the list kept on the validator from one call to the next
ValidateKeepingErrors(config_path, src, files_on_disk, reg, seed) ==
    ValidateFrom(IF outcome.kind = "return" THEN outcome.errors ELSE <<>>,
                 config_path, src, files_on_disk, reg, seed)

\* validate(config_path): the list starts empty on every call
Validate(config_path, src, files_on_disk, reg, seed) ==
    ValidateFrom(<<>>, config_path, src, files_on_disk, reg, seed)

(* ----------------------------- the machine ---------------------------- *)
ProgName   == <<"validate.py">>
ConfigSegs == <<"apps", "demo", "app-config.yml">>
OtherPath  == PathOf(<<"apps", "demo", "other.yml">>)

NoValidator == [schema |-> "unset"]
NoOutcome   == [kind |-> "none"]
NoProbe     == [validator |-> "none"]
NoDiag      == [severity |-> "none"]

UsageLine == [kind |-> "text", text |-> "Usage: python validate.py <path-to-app-config.yml>"]

\* json.dumps(result, indent=2) of main
JsonReport(config_path, result) ==
    [kind |-> "json", is_valid |-> result.is_valid,
     config_file |-> PathStr(config_path), errors |-> result.errors]

Idle ==
    /\ pc = "start" /\ validator = NoValidator /\ outcome = NoOutcome
    /\ stdout = <<>> /\ exitCode = -1 /\ reports = <<>>
    /\ probe = NoProbe /\ diag = NoDiag

\* a quiet environment, for the runs that never get to read it
QuietSource ==
    [kind |-> "parsed", config |-> EmptyDict, violation |-> NoViolation]

(* -------------------------------- main --------------------------------- *)
Init ==
    /\ Idle
    /\ hashSeed \in HashSeeds
    /\ \/ /\ argv = <<ProgName>>
          /\ schemaFile \in {"ok", "missing"}
          /\ files \in [{ConfigPath} -> {QuietSource, [kind |-> "missing"]}]
          /\ disk \in {{}, DockerfilePaths}
          /\ registry \in {[kind |-> "absent"], [kind |-> "malformed"]}
       \/ /\ argv = <<ProgName, ConfigSegs>>
          /\ schemaFile = "missing"
          /\ files \in [{ConfigPath} -> {QuietSource, [kind |-> "missing"]}]
          /\ disk \in {{}, DockerfilePaths}
          /\ registry \in {[kind |-> "absent"], [kind |-> "malformed"]}
       \/ /\ argv = <<ProgName, ConfigSegs>>
          /\ schemaFile = "ok"
          /\ files \in [{ConfigPath} -> Sources]
          /\ disk \in SUBSET DockerfilePaths
          /\ registry \in Registries
       \/ /\ argv = <<ProgName, ConfigSegs>>
          /\ schemaFile = "ok"
          /\ files \in [{ConfigPath} -> ViolatingSources]
          /\ disk \in {{}, DockerfilePaths}
          /\ registry \in Registries

\* len(sys.argv) < 2: usage and exit 1
MainUsage ==
    /\ pc = "start"
    /\ Len(argv) < 2
    /\ stdout' = Append(stdout, UsageLine)
    /\ exitCode' = 1
    /\ pc' = "exited"
    /\ UNCHANGED <<envVars, validator, outcome, libVars, fixVars>>

\* AppConfigValidator(): open and json.load the schema, or die of the exception
MainConstruct ==
    /\ pc = "start"
    /\ Len(argv) >= 2
    /\ IF schemaFile = "ok"
       THEN /\ validator' = [schema |-> "loaded"]
            /\ pc' = "constructed"
            /\ UNCHANGED exitCode
       ELSE /\ pc' = "exited"
            /\ exitCode' = 1
            /\ UNCHANGED validator
    /\ UNCHANGED <<envVars, outcome, stdout, libVars, fixVars>>

\* validator.validate(config_path); an exception it lets out ends the process
MainValidate ==
    /\ pc = "constructed"
    /\ LET config_path == PathOf(argv[2])
           result == Validate(config_path, files[config_path], disk, registry, hashSeed)
       IN /\ outcome' = result
          /\ IF result.kind = "raise"
             THEN pc' = "exited" /\ exitCode' = 1
             ELSE pc' = "validated" /\ UNCHANGED exitCode
    /\ UNCHANGED <<envVars, validator, stdout, libVars, fixVars>>

\* print(json.dumps(result, indent=2))
MainPrint ==
    /\ pc = "validated"
    /\ stdout' = Append(stdout, JsonReport(PathOf(argv[2]), outcome))
    /\ pc' = "printed"
    /\ UNCHANGED <<envVars, validator, outcome, exitCode, libVars, fixVars>>

\* sys.exit(0 if is_valid else 1)
MainExit ==
    /\ pc = "printed"
    /\ exitCode' = (IF outcome.is_valid THEN 0 ELSE 1)
    /\ pc' = "exited"
    /\ UNCHANGED <<envVars, validator, outcome, stdout, libVars, fixVars>>

Next == MainUsage \/ MainConstruct \/ MainValidate \/ MainPrint \/ MainExit

Spec == Init /\ [][Next]_vars

(* ----------------------- a long-lived validator ------------------------ *)
\* the documents an embedding caller validates, again and again
LibSources ==
    {[kind |-> "missing"],
     [kind |-> "badyaml", details |-> "mapping values are not allowed here"]}
    \cup {[kind |-> "parsed", config |-> c, violation |-> NoViolation] :
             c \in ProbeDocs \cup {EmptyDict}}
    \cup {[kind |-> "parsed", config |-> c, violation |-> e] :
             c \in {EmptyDict},
             e \in ErrorsOver({"required" :> <<"app", "components">>}, {<<>>})}

InitLib ==
    /\ Idle
    /\ hashSeed \in HashSeeds
    /\ argv = <<ProgName>>
    /\ schemaFile = "ok"
    /\ files \in [{ConfigPath, OtherPath} -> LibSources]
    /\ disk \in SUBSET DockerfilePaths
    /\ registry \in Registries

\* validator = AppConfigValidator()
LibConstruct ==
    /\ pc = "start"
    /\ schemaFile = "ok"
    /\ validator' = [schema |-> "loaded"]
    /\ pc' = "embedded"
    /\ UNCHANGED <<envVars, outcome, stdout, exitCode, libVars, fixVars>>

\* validator.validate(p), the caller surviving what it raises
LibValidate(p) ==
    /\ pc = "embedded"
    /\ Len(reports) < MaxCalls
    /\ LET result == Validate(p, files[p], disk, registry, hashSeed)
       IN /\ outcome' = result
          /\ reports' = Append(reports, [path |-> p, outcome |-> result])
    /\ UNCHANGED <<envVars, pc, validator, stdout, exitCode, fixVars>>

NextLib == LibConstruct \/ \E p \in DOMAIN files : LibValidate(p)

SpecLib == InitLib /\ [][NextLib]_vars

(* ------------------- the explanation resolver alone -------------------- *)
InitFix ==
    /\ pc = "start" /\ validator = [schema |-> "loaded"] /\ outcome = NoOutcome
    /\ stdout = <<>> /\ exitCode = -1 /\ reports = <<>>
    /\ diag = NoDiag
    /\ probe \in ErrorsOver(SchemaShapes, ErrorPaths)
    /\ hashSeed = 0
    /\ argv = <<ProgName>>
    /\ schemaFile = "ok"
    /\ files = [p \in {ConfigPath} |-> QuietSource]
    /\ disk = {}
    /\ registry = [kind |-> "absent"]

\* error_dict = self._explain_validation_error(e, config_path)
Explain ==
    /\ pc = "start"
    /\ probe # NoProbe
    /\ diag' = ExplainValidationError(probe, ConfigPath)
    /\ pc' = "explained"
    /\ UNCHANGED <<envVars, validator, outcome, stdout, exitCode, libVars, probe>>

NextFix == Explain

SpecFix == InitFix /\ [][NextFix]_vars

(* ============================ properties =============================== *)
\* the document main was asked to validate, and what validate made of it
Ran      == outcome # NoOutcome
Returned == outcome.kind = "return"
Source   == files[PathOf(argv[2])]
Passed   == Source.kind = "parsed" /\ Source.violation = NoViolation
Config   == Source.config

Blocking(d) == d.severity \in {"error", "critical"}

\* which stage or rule wrote a diagnostic, told by its fixed parts
IsLoader(d)     == d.severity = "critical"
IsStructural(d) == "field" \in DOMAIN d
IsBackend(d)    == /\ d.severity = "error" /\ ~IsStructural(d)
                   /\ "docs_link" \in DOMAIN d
                   /\ d.docs_link = "platform/docs/dockerfile-guide.md"
IsFrontend(d)   == d.severity = "error" /\ ~IsStructural(d) /\ "docs_link" \notin DOMAIN d
IsCpu(d)        == /\ d.severity = "warning"
                   /\ d.fix = "Reduce components.backend.cpu to 1.0 or 2.0 unless you have "
                              \o "specific performance requirements"
IsTeam(d)       == d.severity = "warning" /\ ~IsCpu(d)

(* C1: every report validate returns has is_valid true exactly when none  *)
(* of its diagnostics has severity error or critical; a report whose only *)
(* diagnostics are warnings is valid.                                     *)
C1_ValidIffNoBlockingDiagnostic ==
    (Ran /\ Returned) =>
        (outcome.is_valid <=> \A i \in DOMAIN outcome.errors : ~Blocking(outcome.errors[i]))

(* C2: when the configuration source does not exist or is not well-formed *)
(* YAML, validate returns is_valid false with exactly one diagnostic, of  *)
(* severity critical, which is the loading stage's own: no structural and *)
(* no business-rule diagnostic is in the report.                          *)
C2_LoadFailureShortCircuits ==
    (Ran /\ Source.kind \in {"missing", "badyaml"}) =>
        /\ Returned
        /\ ~outcome.is_valid
        /\ Len(outcome.errors) = 1
        /\ outcome.errors[1].severity = "critical"
        /\ outcome.errors[1].error =
              (IF Source.kind = "missing"
               THEN "File not found: apps/demo/app-config.yml"
               ELSE "Failed to parse YAML")
        /\ ~IsStructural(outcome.errors[1])
        /\ ~IsBackend(outcome.errors[1]) /\ ~IsFrontend(outcome.errors[1])
        /\ ~IsCpu(outcome.errors[1]) /\ ~IsTeam(outcome.errors[1])

\* a missing document was validated where reading the registry would raise
C2_Witness ==
    /\ Ran /\ Returned
    /\ Source.kind = "missing"
    /\ registry.kind = "malformed"
    /\ disk = {}

\* "a.b.0" for the path of the schema violation, "root" for the empty path
DottedPath(path) ==
    IF path = <<>> THEN "root"
    ELSE JoinStr([i \in DOMAIN path |->
                    IF path[i] = [idx |-> 0] THEN "0" ELSE path[i].key], ".")

(* C3: for a parsed document that violates the schema, validate returns   *)
(* is_valid false with exactly one diagnostic, the structural one: it has *)
(* severity error, its field is the dotted path of the offending node, or *)
(* "root" for the empty path, and its error is the schema's message; for  *)
(* a missing required field the message names the field, and so does the  *)
(* fix; no Dockerfile, CPU or team diagnostic is in the report.           *)
C3_SchemaViolationGivesOneStructuralDiagnostic ==
    (Ran /\ Source.kind = "parsed" /\ Source.violation # NoViolation) =>
        /\ Returned
        /\ ~outcome.is_valid
        /\ Len(outcome.errors) = 1
        /\ LET d == outcome.errors[1]
               e == Source.violation
           IN /\ d.severity = "error"
              /\ IsStructural(d)
              /\ d.field = DottedPath(e.path)
              /\ ~IsBackend(d) /\ ~IsFrontend(d) /\ ~IsCpu(d) /\ ~IsTeam(d)
              /\ e.validator = "required" =>
                    \E i \in DOMAIN e.schema.required :
                        LET f == e.schema.required[i]
                        IN /\ d.error = "'" \o f \o "' is a required property"
                           /\ d.fix = "Add the required field '" \o f
                                      \o "' to your configuration"

\* a document missing a required field at its root was validated, in a
\* setting where every business rule would have had something to report
C3_Witness ==
    /\ Ran /\ Returned
    /\ Source.kind = "parsed"
    /\ Source.violation # NoViolation
    /\ Source.violation.validator = "required"
    /\ Source.violation.path = <<>>
    /\ outcome.errors[1].field = "root"
    /\ Source.config.app.team = "beta"
    /\ disk = {}
    /\ registry.kind = "malformed"

\* the Dockerfile the backend rule looks for
ExpectedBackendDockerfile ==
    IF "directory" \in DOMAIN Component(Config, "backend")
    THEN "apps/demo/api/Dockerfile"
    ELSE "apps/demo/backend/Dockerfile"

BackendEnabled ==
    /\ "enabled" \in DOMAIN Component(Config, "backend")
    /\ Component(Config, "backend").enabled

BackendDockerfileMissing ==
    PathOf(IF "directory" \in DOMAIN Component(Config, "backend")
           THEN <<"apps", "demo", "api", "Dockerfile">>
           ELSE <<"apps", "demo", "backend", "Dockerfile">>) \notin disk

\* the other three rules have nothing to report and nothing to raise
FrontendQuiet ==
    \/ "enabled" \notin DOMAIN Component(Config, "frontend")
    \/ PathOf(IF "directory" \in DOMAIN Component(Config, "frontend")
              THEN <<"/", "srv", "web", "Dockerfile">>
              ELSE <<"apps", "demo", "frontend", "Dockerfile">>) \in disk

CpuQuiet ==
    \/ "cpu" \notin DOMAIN Component(Config, "backend")
    \/ Component(Config, "backend").cpu = PyFloat(20)

TeamSet == "app" \in DOMAIN Config /\ "team" \in DOMAIN Config.app

\* the teams the registry lists
ListedTeams ==
    IF registry.kind = "mapping" /\ "apps" \in DOMAIN registry.doc
    THEN {registry.doc.apps[i].team :
             i \in {j \in DOMAIN registry.doc.apps : "team" \in DOMAIN registry.doc.apps[j]}}
    ELSE {}

TeamQuiet ==
    \/ ~TeamSet
    \/ registry.kind = "absent"
    \/ registry.kind = "mapping" /\ (Config.app.team = "pilot" \/ Config.app.team \in ListedTeams)

(* C4: for a document that passes structural validation, has              *)
(* components.backend.enabled true and no Dockerfile in the backend       *)
(* directory (default ./backend, taken relative to the document's         *)
(* directory), a returned report has is_valid false and a severity-error  *)
(* diagnostic naming the expected Dockerfile path; with enabled false and *)
(* the other three rules having nothing to report or raise, the document  *)
(* is reported valid, with no diagnostic.                                 *)
C4_BackendDockerfileRule ==
    (Ran /\ Passed /\ BackendDockerfileMissing) =>
        /\ (BackendEnabled /\ Returned) =>
              /\ ~outcome.is_valid
              /\ \E i \in DOMAIN outcome.errors :
                    /\ outcome.errors[i].severity = "error"
                    /\ outcome.errors[i].error =
                          "Backend enabled but Dockerfile not found at "
                          \o ExpectedBackendDockerfile
        /\ (~BackendEnabled /\ FrontendQuiet /\ CpuQuiet /\ TeamQuiet) =>
              /\ Returned
              /\ outcome.is_valid
              /\ outcome.errors = <<>>

\* a document with the backend enabled in ./api was validated while the
\* only Dockerfile on disk was the one in ./backend
C4_Witness ==
    /\ Ran /\ Returned /\ Passed
    /\ BackendEnabled
    /\ "directory" \in DOMAIN Component(Config, "backend")
    /\ BackendDockerfileMissing
    /\ PathOf(<<"apps", "demo", "backend", "Dockerfile">>) \in disk
    /\ ~outcome.is_valid

Printed(kind) == \E i \in DOMAIN stdout : stdout[i].kind = kind

(* C5: main exits 0 exactly when validation gave is_valid true, and 1     *)
(* otherwise; without a path argument it prints the usage line and exits  *)
(* 1 with no validator constructed and no validation run; every other run *)
(* prints the JSON report (is_valid, config_file, errors) before it       *)
(* exits, also on failure.  (A run that dies loading the tool's own       *)
(* schema is left out: the spec makes that one fatal.)                    *)
C5_CliContract ==
    pc = "exited" =>
        /\ exitCode \in {0, 1}
        /\ exitCode = 0 <=> (Ran /\ Returned /\ outcome.is_valid)
        /\ Len(argv) < 2 =>
              /\ stdout = <<UsageLine>>
              /\ exitCode = 1
              /\ validator = NoValidator
              /\ ~Ran
        /\ (Len(argv) >= 2 /\ schemaFile = "ok") =>
              /\ Printed("json")
              /\ Ran /\ Returned
              /\ stdout[Len(stdout)] =
                    [kind |-> "json", is_valid |-> outcome.is_valid,
                     config_file |-> "apps/demo/app-config.yml",
                     errors |-> outcome.errors]

(* C6: with the schema loaded, every failure met during validate -- the   *)
(* document missing or unreadable, malformed YAML, a schema violation, a  *)
(* missing Dockerfile, high CPU, an unregistered team, a registry file    *)
(* that is malformed, empty or has entries without a team -- ends in a    *)
(* returned report, with a diagnostic for a document that is not clean;   *)
(* no exception escapes validate.                                         *)
C6_NoExceptionEscapes ==
    Ran =>
        /\ Returned
        /\ (~Passed) => outcome.errors # <<>>

(* C9: in a report the diagnostics are in stage order: a structural one   *)
(* comes before any business-rule one, and the business-rule ones come in *)
(* the order backend Dockerfile, frontend Dockerfile, CPU, team.          *)
Rank(d) ==
    IF IsLoader(d) THEN 0
    ELSE IF IsStructural(d) THEN 1
    ELSE IF IsBackend(d) THEN 2
    ELSE IF IsFrontend(d) THEN 3
    ELSE IF IsCpu(d) THEN 4
    ELSE 5

C9_DiagnosticsInStageOrder ==
    (Ran /\ Returned) =>
        \A i, j \in DOMAIN outcome.errors :
            i < j => Rank(outcome.errors[i]) < Rank(outcome.errors[j])

\* a report in which all four business rules have an entry
C9_Witness ==
    /\ Ran /\ Returned
    /\ Len(outcome.errors) = 4
    /\ IsBackend(outcome.errors[1]) /\ IsFrontend(outcome.errors[2])
    /\ IsCpu(outcome.errors[3]) /\ IsTeam(outcome.errors[4])

HasTeamWarning ==
    \E i \in DOMAIN outcome.errors : IsTeam(outcome.errors[i])

(* C10: for a document that passes structural validation the team warning *)
(* is in the report exactly when app.team is set, the registry file       *)
(* exists, and the team is neither listed in it nor "pilot"; when the     *)
(* registry file is absent, or app.team is unset, or the team is listed   *)
(* or is "pilot", the rule adds nothing and raises nothing.               *)
C10_TeamRegistryRule ==
    (Ran /\ Passed) =>
        /\ Returned
        /\ HasTeamWarning <=>
              /\ TeamSet
              /\ registry.kind # "absent"
              /\ Config.app.team \notin ListedTeams
              /\ Config.app.team # "pilot"

C8_FixPrecedence ==
    diag # NoDiag =>
        LET s == probe.schema
            v == probe.validator
            lo == IF "minimum" \in DOMAIN s THEN "0.5" ELSE ""
            hi == IF "maximum" \in DOMAIN s THEN "4" ELSE ""
        IN /\ IF "pattern" \in DOMAIN s /\ s.pattern = "^[a-z0-9-]{3,15}$"
              THEN /\ diag.fix = "Use only lowercase letters, numbers, and hyphens. Length must be 3-15 characters. Example: 'my-app' or 'api-service'"
                   /\ diag.fix # "Check the schema documentation for correct format"
              ELSE IF v = "required"
              THEN \E i \in DOMAIN s.required :
                      /\ probe.message = <<"'", s.required[i], "'", " is a required property">>
                      /\ diag.fix = "Add the required field '" \o s.required[i]
                                    \o "' to your configuration"
              ELSE IF v = "enum"
              THEN diag.fix = "Value must be one of: dev, staging, prod"
              ELSE IF v = "type"
              THEN diag.fix = "This field must be a string"
              ELSE IF "minimum" \in DOMAIN s \/ "maximum" \in DOMAIN s
              THEN diag.fix = "Value must be between " \o lo \o " and " \o hi
              ELSE diag.fix = "Check the schema documentation for correct format"

\* a missing required field was explained whose subschema also carries the
\* identifier pattern: case (1) won over case (2)
C8_Witness ==
    /\ diag # NoDiag
    /\ probe.validator = "required"
    /\ "pattern" \in DOMAIN probe.schema
    /\ probe.schema.pattern = IdPattern
    /\ diag.fix = PatternFix

\* components.backend.cpu, when the document sets it
CpuSet == "cpu" \in DOMAIN Component(Config, "backend")
Cpu    == Component(Config, "backend").cpu

\* the CPU diagnostics of the report
CpuDiagnostics == {i \in DOMAIN outcome.errors : IsCpu(outcome.errors[i])}

\* cpu * 20 to two decimals, for the cpu values of the model
MonthlyCost ==
    IF Cpu = PyFloat(25) THEN "50.00"
    ELSE IF Cpu = PyInt(3) THEN "60.00"
    ELSE "40.00"

(* C11: for a document that passes structural validation, a returned      *)
(* report holds exactly one CPU diagnostic, of severity warning, when     *)
(* components.backend.cpu is strictly above 2.0, the backend enabled or   *)
(* not, and none when cpu is absent or at most 2.0 (2.0 itself gives      *)
(* none); the diagnostic states a monthly cost of cpu * 20.               *)
C11_HighCpuRule ==
    (Ran /\ Passed /\ Returned) =>
        IF CpuSet /\ Cpu.tenths > 20
        THEN /\ Cardinality(CpuDiagnostics) = 1
             /\ \A i \in CpuDiagnostics :
                   /\ outcome.errors[i].severity = "warning"
                   /\ outcome.errors[i].why_this_matters =
                         "This will cost approximately £" \o MonthlyCost
                         \o "/month just for CPU. "
                         \o "Consider starting with 1-2 cores and scaling up if needed."
        ELSE CpuDiagnostics = {}

\* a document with the backend disabled and cpu: 3 was validated and drew
\* the warning, with a cost of 60.00
C11_Witness ==
    /\ Ran /\ Passed /\ Returned
    /\ "enabled" \in DOMAIN Component(Config, "backend")
    /\ ~Component(Config, "backend").enabled
    /\ CpuSet /\ Cpu = PyInt(3)
    /\ Cardinality(CpuDiagnostics) = 1
    /\ \E i \in CpuDiagnostics :
          outcome.errors[i].error = "Backend CPU allocation is high: 3 cores"

\* the report's diagnostics written by the rule that P tells
Written(P(_)) == {i \in DOMAIN outcome.errors : P(outcome.errors[i])}

ExpectedFrontendDockerfile ==
    IF "directory" \in DOMAIN Component(Config, "frontend")
    THEN "/srv/web/Dockerfile"
    ELSE "apps/demo/frontend/Dockerfile"

\* what each rule is to report on, told from its own inputs alone
BackendDue  == BackendEnabled /\ BackendDockerfileMissing
FrontendDue == ~FrontendQuiet
CpuDue      == CpuSet /\ Cpu.tenths > 20
TeamUnknown == /\ TeamSet /\ registry.kind = "mapping"
               /\ Config.app.team \notin ListedTeams
               /\ Config.app.team # "pilot"
\* the team rule raises: reading the registry, or joining a team-less entry
TeamRaises  ==
    /\ TeamSet
    /\ \/ registry.kind \in {"malformed", "empty"}
       \/ /\ TeamUnknown
          /\ "apps" \in DOMAIN registry.doc
          /\ \E i \in DOMAIN registry.doc.apps : "team" \notin DOMAIN registry.doc.apps[i]

(* C12: the four business rules are independent: once structural          *)
(* validation has passed, all four are evaluated, and whether a rule       *)
(* writes its diagnostic, and what the diagnostic says, is decided by the  *)
(* document, the file system and the registry alone, never by what an      *)
(* earlier rule wrote: a missing backend Dockerfile does not suppress the  *)
(* frontend error, the CPU warning or the team warning, nor what the team  *)
(* rule raises.                                                            *)
C12_RulesAreIndependent ==
    (Ran /\ Passed) =>
        /\ ~Returned <=> TeamRaises
        /\ Returned =>
              /\ Cardinality(Written(IsBackend))  = (IF BackendDue THEN 1 ELSE 0)
              /\ Cardinality(Written(IsFrontend)) = (IF FrontendDue THEN 1 ELSE 0)
              /\ Cardinality(Written(IsCpu))      = (IF CpuDue THEN 1 ELSE 0)
              /\ Cardinality(Written(IsTeam))     = (IF TeamUnknown THEN 1 ELSE 0)
              /\ \A i \in Written(IsBackend) :
                    outcome.errors[i].error =
                        "Backend enabled but Dockerfile not found at "
                        \o ExpectedBackendDockerfile
              /\ \A i \in Written(IsFrontend) :
                    outcome.errors[i].error =
                        "Frontend enabled but Dockerfile not found at "
                        \o ExpectedFrontendDockerfile
              /\ \A i \in Written(IsCpu) :
                    outcome.errors[i].why_this_matters =
                        "This will cost approximately £" \o MonthlyCost
                        \o "/month just for CPU. "
                        \o "Consider starting with 1-2 cores and scaling up if needed."
              /\ \A i \in Written(IsTeam) :
                    outcome.errors[i].error =
                        "Team '" \o Config.app.team \o "' not found in registry"

\* the backend Dockerfile was missing and the three later rules still wrote
\* their diagnostics
C12_Witness ==
    /\ Ran /\ Passed /\ Returned
    /\ BackendDue /\ FrontendDue /\ CpuDue /\ TeamUnknown
    /\ Written(IsBackend) = {1}
    /\ Written(IsFrontend) = {2}
    /\ Written(IsCpu) = {3}
    /\ Written(IsTeam) = {4}

====
